---------------------------- MODULE Spec2Model ----------------------------
(***************************************************************************)
(* Model of the two Sephora scrapers:                                      *)
(*   parse_sephora_listing.py   (the "listing pipeline")                   *)
(*   sephora_perfume_scraper.py (the "page pipeline")                      *)
(*                                                                         *)
(* Four specifications share the module's variables:                       *)
(*   SpecScan    find_json_objects_in_html, one step per loop iteration    *)
(*   SpecNorm    normalize_and_extract applied to one candidate            *)
(*   SpecListing runs of parse_sephora_listing.main, with kills            *)
(*   SpecPage    runs of sephora_perfume_scraper.main, with kills          *)
(* Python indices are kept 0-based; html[i] of the source is html[i + 1].  *)
(***************************************************************************)
EXTENDS Integers, Sequences, FiniteSets, TLC

VARIABLES
    \* ---- find_json_objects_in_html ----
    segs,       \* the fragments the text was assembled from (input)
    html,       \* the text, a sequence of characters
    i, j,       \* outer and inner scan positions
    start,      \* position of the span's opening brace
    depth, in_str, esc,
    objs,       \* the parsed dicts, in the order appended
    spans,      \* for each appended dict, the <<start, j>> of its candidate
    scans,      \* for each inner scan that ended: [start, end, outcome]
    spc,        \* "outer" | "inner" | "done"
    \* ---- normalize_and_extract ----
    prod,       \* the candidate dict (input)
    result,     \* what the call gave: a row, or the exception it raised
    npc,        \* "call" | "returned" | "raised" | "filtered"
    \* ---- the files both pipelines leave behind ----
    images,     \* the images directory: file name -> [state, src], state
                \* "none" | "partial" | "complete", src the URL it came from
    net_calls,  \* for each image URL, the requests made for it so far
    local_names, \* for each image URL, the local names derived for it so far
    returned,   \* for each image URL, the paths download_image returned
    listing_csv, \* args.out of the listing pipeline: [exists, lines]
    \* ---- parse_sephora_listing.main ----
    parsed_objs, \* what the scan of the listing returned (input)
    download_images, \* args.download_images
    obj_idx,    \* how many of parsed_objs the dedup loop has taken
    products, seen,
    fh,         \* lines written to the open file and not yet on disk
    pr_idx,     \* how many of products the write loop has taken
    local_img,
    lpc,        \* "idle" | "dedup" | "open" | "image" | "stream" | "row" | "close"
    lexit,      \* how the last run ended: "none" (none yet, or one is on) | "ok" | "usage" | "crashed" | "killed"
    lruns,      \* runs started so far
    keys_at_start, \* the DedupKeys listing_csv held when the run started
    hash_seed,  \* the seed of the process's str hash
    lsince,     \* fetches of each kind since the run's last time.sleep
    \* ---- sephora_perfume_scraper.main ----
    page_csv,   \* args.out of the page pipeline: [exists, lines]
    product_links, \* the links of the listing page (input)
    existing,   \* the keys load_existing_csv found
    link_idx,   \* how many of product_links the loop has taken
    page_html,  \* html of the loop: "None" | "" | "minimal" | "full"
    parsed,     \* parse_product_page's result
    downloaded,
    img_idx,    \* how many of parsed.image_urls the loop has taken
    write_header, \* save_row's write_header
    ppc,        \* "idle" | "next" | "fallback" | "parse" | "image" | "stream" | "save" | "write"
    pexit,      \* how the last run ended, as lexit
    pruns,      \* runs started so far
    psince      \* fetches of each kind since the run's last time.sleep

scanVars == <<segs, html, i, j, start, depth, in_str, esc, objs, spans, scans,
              spc>>
normVars == <<prod, result, npc>>
fileVars == <<images, listing_csv, page_csv, net_calls, local_names, returned>>
listVars == <<parsed_objs, download_images, obj_idx, products, seen, fh,
              pr_idx, local_img, lpc, lexit, lruns, keys_at_start,
              hash_seed, lsince>>

pageVars == <<product_links, existing, link_idx, page_html, parsed,
              downloaded, img_idx, write_header, ppc, pexit, pruns, psince>>

vars == <<scanVars, normVars, fileVars, listVars, pageVars>>

(***************************************************************************)
(* Characters                                                              *)
(***************************************************************************)
LB == "{"
RB == "}"
QT == "\""
BS == "\\"
CL == ":"
CM == ","
SP == " "

RECURSIVE Concat(_)
Concat(ss) == IF ss = <<>> THEN <<>> ELSE Head(ss) \o Concat(Tail(ss))

\* html[a:b] of Python, 0-based, b exclusive
Slice(s, a, b) == IF b <= a THEN <<>> ELSE SubSeq(s, a + 1, b)

(***************************************************************************)
(* json.loads, for the characters the fragments use: objects, strings      *)
(* with the escapes \" and \\, integers written with the digit 1, blanks.  *)
(* A parse returns [ok, pos, val]; pos is the 1-based next position.       *)
(* A dict is <<"dict", pairs>>, pairs a sequence of <<key, value>> in      *)
(* insertion order; a str is <<"str", chars>>; an int is <<"int", digits>>.*)
(***************************************************************************)
JsonFail == [ok |-> FALSE, pos |-> 0, val |-> <<"err">>]

RECURSIVE SkipWs(_, _)
SkipWs(s, p) == IF p <= Len(s) /\ s[p] = SP THEN SkipWs(s, p + 1) ELSE p

\* p is the position after the opening quote
RECURSIVE ParseString(_, _, _)
ParseString(s, p, acc) ==
    IF p > Len(s) THEN JsonFail
    ELSE IF s[p] = QT THEN [ok |-> TRUE, pos |-> p + 1, val |-> <<"str", acc>>]
    ELSE IF s[p] = BS
         THEN IF p + 1 <= Len(s) /\ s[p + 1] \in {QT, BS}
              THEN ParseString(s, p + 2, Append(acc, s[p + 1]))
              ELSE JsonFail
    ELSE ParseString(s, p + 1, Append(acc, s[p]))

RECURSIVE ParseInt(_, _, _)
ParseInt(s, p, acc) ==
    IF p <= Len(s) /\ s[p] = "1" THEN ParseInt(s, p + 1, Append(acc, "1"))
    ELSE IF acc = <<>> THEN JsonFail
    ELSE [ok |-> TRUE, pos |-> p, val |-> <<"int", acc>>]

\* a later duplicate key replaces the value and keeps the key's place
RECURSIVE DictPut(_, _, _)
DictPut(pairs, k, v) ==
    IF pairs = <<>> THEN << <<k, v>> >>
    ELSE IF Head(pairs)[1] = k THEN << <<k, v>> >> \o Tail(pairs)
    ELSE <<Head(pairs)>> \o DictPut(Tail(pairs), k, v)

RECURSIVE ParseValue(_, _)
RECURSIVE ParseMembers(_, _, _)

\* the key k and the value v are bound to their parse once, so that the
\* text of each is parsed once
RECURSIVE AfterKey(_, _, _)
RECURSIVE AfterValue(_, _, _, _)
AfterValue(s, k, v, pairs) ==
    IF ~v.ok THEN JsonFail
    ELSE LET p3 == SkipWs(s, v.pos)
         IN IF p3 > Len(s) THEN JsonFail
            ELSE IF s[p3] = RB
                 THEN [ok |-> TRUE, pos |-> p3 + 1,
                       val |-> <<"dict", DictPut(pairs, k.val[2], v.val)>>]
            ELSE IF s[p3] = CM
                 THEN ParseMembers(s, p3 + 1, DictPut(pairs, k.val[2], v.val))
            ELSE JsonFail

AfterKey(s, k, pairs) ==
    IF ~k.ok THEN JsonFail
    ELSE LET p2 == SkipWs(s, k.pos) IN
         IF p2 > Len(s) \/ s[p2] # CL THEN JsonFail
         ELSE CHOOSE r \in {AfterValue(s, k, v, pairs) :
                               v \in {ParseValue(s, SkipWs(s, p2 + 1))}} : TRUE

\* p is the position where a member's key must start (after blanks)
ParseMembers(s, p, pairs) ==
    LET p1 == SkipWs(s, p) IN
    IF p1 > Len(s) \/ s[p1] # QT THEN JsonFail
    ELSE CHOOSE r \in {AfterKey(s, k, pairs) :
                          k \in {ParseString(s, p1 + 1, <<>>)}} : TRUE

ParseValue(s, p) ==
    IF p > Len(s) THEN JsonFail
    ELSE IF s[p] = QT THEN ParseString(s, p + 1, <<>>)
    ELSE IF s[p] = "1" THEN ParseInt(s, p, <<>>)
    ELSE IF s[p] = LB
         THEN LET p1 == SkipWs(s, p + 1) IN
              IF p1 <= Len(s) /\ s[p1] = RB
              THEN [ok |-> TRUE, pos |-> p1 + 1, val |-> <<"dict", <<>>>>]
              ELSE ParseMembers(s, p + 1, <<>>)
    ELSE JsonFail

\* json.loads(candidate): a value, then nothing but blanks
JsonLoads(s) ==
    LET r == ParseValue(s, SkipWs(s, 1)) IN
    IF r.ok /\ SkipWs(s, r.pos) > Len(s) THEN r ELSE JsonFail

IsDict(v) == v[1] = "dict"

(***************************************************************************)
(* Input texts: up to MaxSegs fragments, concatenated.                     *)
(***************************************************************************)
MaxSegs == 3

\* {"a":1}
O_plain == <<LB, QT, "a", QT, CL, "1", RB>>
\* {"a":"}{"}        braces inside a string
O_brace == <<LB, QT, "a", QT, CL, QT, RB, LB, QT, RB>>
\* {"a":"\"}"}       an escaped quote immediately followed by a brace
O_escq == <<LB, QT, "a", QT, CL, QT, BS, QT, RB, QT, RB>>
\* {"a":"{\\"}       an escaped backslash before the closing quote
O_escb == <<LB, QT, "a", QT, CL, QT, LB, BS, BS, QT, RB>>
\* {"a":{}}          a nested object
O_nested == <<LB, QT, "a", QT, CL, LB, RB, RB>>
\* {"a": {"b": }     the malformed span
M_span == <<LB, QT, "a", QT, CL, SP, LB, QT, "b", QT, CL, SP, RB>>
J_text == <<"a", CL>>
J_open == <<LB>>
J_close == <<RB>>
J_quote == <<QT>>

\* well-formed JSON objects with no object nested in them
FlatObjects == {O_plain, O_brace, O_escq, O_escb}
\* text that is no JSON object
Junk == {J_text, J_open, J_close, J_quote, M_span}
Fragments == FlatObjects \cup Junk \cup {O_nested}

Texts == UNION {[1..n -> Fragments] : n \in 0..MaxSegs}

(***************************************************************************)
(* find_json_objects_in_html                                               *)
(***************************************************************************)
L == Len(html)

\* mutant: the quote toggles in_str also when it is escaped
NextInStrIgnoreEsc(ch, instr, e) == IF ch = QT THEN ~instr ELSE instr

\* line 69-70: a quote toggles in_str unless it is escaped
NextInStr(ch, instr, e) == IF ch = QT /\ ~e THEN ~instr ELSE instr

\* line 71-76: a backslash that is not itself escaped escapes the next char
NextEsc(ch, e) == ch = BS /\ ~e

\* mutant: any closing brace outside a string ends the span
ClosesAtAnyBrace(ch, d) == ch = RB

\* lines 80-82: a closing brace outside a string that brings depth to zero
Closes(ch, d) == ch = RB /\ d - 1 = 0

\* mutant: a candidate is appended whatever json.loads made of it
AcceptedAlways(r) == TRUE

\* lines 84-90: the candidate parsed, and to a dict
Accepted(r) == r.ok /\ IsDict(r.val)

\* mutant: the outer scan resumes at the span's closing brace
ResumeAtSame(jj) == jj

\* mutant: the outer scan resumes one character too far
ResumeAtSkip(jj) == jj + 2

\* line 93: the outer scan resumes right after the inner scan's position
ResumeAt(jj) == jj + 1

InitScan ==
    /\ segs \in Texts
    /\ html = Concat(segs)
    /\ i = 0 /\ j = 0 /\ start = 0
    /\ depth = 0 /\ in_str = FALSE /\ esc = FALSE
    /\ objs = <<>> /\ spans = <<>> /\ scans = <<>>
    /\ spc = "outer"

\* lines 60-66, 94-95: one iteration of the outer loop
OuterStep ==
    /\ spc = "outer" /\ i < L
    /\ IF html[i + 1] = LB
       THEN /\ start' = i /\ depth' = 0 /\ in_str' = FALSE /\ esc' = FALSE
            /\ j' = i /\ spc' = "inner"
            /\ UNCHANGED i
       ELSE /\ i' = i + 1
            /\ UNCHANGED <<start, depth, in_str, esc, j, spc>>
    /\ UNCHANGED <<segs, html, objs, spans, scans>>
    /\ UNCHANGED <<normVars, fileVars, listVars, pageVars>>

\* line 60, 96: the outer loop ends
OuterExit ==
    /\ spc = "outer" /\ i >= L
    /\ spc' = "done"
    /\ UNCHANGED <<segs, html, i, j, start, depth, in_str, esc, objs, spans,
                   scans>>
    /\ UNCHANGED <<normVars, fileVars, listVars, pageVars>>

\* lines 67-92: one iteration of the inner loop
InnerStep ==
    /\ spc = "inner" /\ j < L
    /\ LET ch == html[j + 1]
           instr == NextInStr(ch, in_str, esc)
           closes == ~NextEsc(ch, esc) /\ ~instr /\ Closes(ch, depth)
           candidate == Slice(html, start, j + 1)
           parsed_json == JsonLoads(candidate)
       IN /\ in_str' = instr
          /\ esc' = NextEsc(ch, esc)
          /\ depth' = IF NextEsc(ch, esc) \/ instr THEN depth
                      ELSE IF ch = LB THEN depth + 1
                      ELSE IF ch = RB THEN depth - 1
                      ELSE depth
          /\ IF closes
             THEN \* lines 83-91, 93: try the candidate, break
                  /\ objs' = IF Accepted(parsed_json)
                             THEN Append(objs, parsed_json.val) ELSE objs
                  /\ spans' = IF Accepted(parsed_json)
                              THEN Append(spans, <<start, j>>) ELSE spans
                  /\ scans' = Append(scans,
                        [start |-> start, end |-> j,
                         outcome |-> IF ~parsed_json.ok THEN "failed"
                                     ELSE IF IsDict(parsed_json.val) THEN "dict"
                                     ELSE "other"])
                  /\ i' = ResumeAt(j) /\ spc' = "outer"
                  /\ UNCHANGED j
             ELSE /\ j' = j + 1
                  /\ UNCHANGED <<objs, spans, scans, i, spc>>
    /\ UNCHANGED <<segs, html, start>>
    /\ UNCHANGED <<normVars, fileVars, listVars, pageVars>>

\* line 67, 93: the inner loop runs off the end of the text
InnerExit ==
    /\ spc = "inner" /\ j >= L
    /\ i' = ResumeAt(j) /\ spc' = "outer"
    /\ scans' = Append(scans, [start |-> start, end |-> j - 1,
                               outcome |-> "unterminated"])
    /\ UNCHANGED <<segs, html, j, start, depth, in_str, esc, objs, spans>>
    /\ UNCHANGED <<normVars, fileVars, listVars, pageVars>>

NextScan == OuterStep \/ OuterExit \/ InnerStep \/ InnerExit

(***************************************************************************)
(* Python values of the candidate dicts.  A candidate is                   *)
(*   [top |-> [TopKeys -> value], skuKind |-> ..., sku |-> [SkuKeys -> value]] *)
(* where ABSENT marks a key the dict does not hold and skuKind tells       *)
(* whether "currentSku" is absent, null or a dict.                         *)
(***************************************************************************)
ABSENT == "<absent>"
NONE == "<None>"
PyTrue == "<True>"
PyFalse == "<False>"

StrKeys == {"productId", "skuId", "displayName", "brandName", "imageAltText",
            "altImage", "listPrice", "heroImage", "image", "mainImage",
            "targetUrl", "productUrl", "rating", "reviews"}
BoolKeys == {"isLimitedEdition", "isNew"}
TopKeys == StrKeys \cup BoolKeys
SkuKeys == {"imageAltText", "isLimitedEdition", "isNew", "listPrice",
            "productId", "displayName"}

\* the columns of a normalized row (lines 119-132)
RowKeys == {"productId", "displayName", "brandName", "imageAltText",
            "isLimitedEdition", "isNew", "listPrice", "heroImage",
            "targetUrl", "rating", "reviews"}

\* d.get(k): None for a key that is not there
Get(d, k) == IF d[k] = ABSENT THEN NONE ELSE d[k]
\* d.get(k, dflt)
GetDefault(d, k, dflt) == IF d[k] = ABSENT THEN dflt ELSE d[k]
\* k in d
Has(d, k) == d[k] # ABSENT
\* bool(v)
Truthy(v) == v \notin {NONE, "", PyFalse}
\* a or b
Or(a, b) == IF Truthy(a) THEN a ELSE b
IsStr(v) == v \notin {NONE, PyTrue, PyFalse, ABSENT}
PyBool(v) == IF Truthy(v) THEN PyTrue ELSE PyFalse

NoSku == [k \in SkuKeys |-> ABSENT]

\* line 104: current = prod.get("currentSku") or {}
Current(p) == IF p.skuKind = "dict" THEN p.sku ELSE NoSku

\* lines 107-109, 111-113: the nested value, the top-level one when it is None
NestedFirstBool(p, k) ==
    IF Get(Current(p), k) # NONE THEN Get(Current(p), k) ELSE Get(p.top, k)

\* mutant: an absent boolean becomes False
TriStateDefaultFalse(v) == PyBool(v)

\* lines 124-125: bool(v) if v is not None else ""
TriState(v) == IF v # NONE THEN PyBool(v) ELSE ""

\* line 121: the right operand of the `or`, evaluated when displayName is
\* falsy: brandName + " " + prod.get("displayName", "").  None + str raises.
DisplayNameFallbackRaises(p) ==
    \/ ~IsStr(Get(p.top, "brandName"))
    \/ ~IsStr(GetDefault(p.top, "displayName", ""))

DisplayNameFallback(p) ==
    Get(p.top, "brandName") \o " " \o GetDefault(p.top, "displayName", "")

NormalizeRaises(p) ==
    ~Truthy(Get(p.top, "displayName")) /\ DisplayNameFallbackRaises(p)

\* mutant: listPrice read from the top level first
ListPriceOfTopFirst(p) ==
    Or(Get(p.top, "listPrice"), Or(Get(Current(p), "listPrice"), ""))

\* line 115
ListPriceOf(p) ==
    Or(Get(Current(p), "listPrice"), Or(Get(p.top, "listPrice"), ""))

\* lines 103-132, for a candidate on which line 121 does not raise
NormalizedRow(p) ==
    [k \in RowKeys |->
        CASE k = "productId" ->
                Or(Get(p.top, "productId"), Or(Get(p.top, "skuId"), ""))
          [] k = "displayName" ->
                IF Truthy(Get(p.top, "displayName"))
                THEN Get(p.top, "displayName")
                ELSE DisplayNameFallback(p)
          [] k = "brandName" -> Or(Get(p.top, "brandName"), "")
          [] k = "imageAltText" ->
                Or(Get(Current(p), "imageAltText"),
                   Or(Get(p.top, "imageAltText"),
                      Or(Get(p.top, "altImage"), "")))
          [] k = "isLimitedEdition" ->
                TriState(NestedFirstBool(p, "isLimitedEdition"))
          [] k = "isNew" -> TriState(NestedFirstBool(p, "isNew"))
          [] k = "listPrice" -> ListPriceOf(p)
          [] k = "heroImage" ->
                Or(Get(p.top, "heroImage"),
                   Or(Get(p.top, "image"), Or(Get(p.top, "mainImage"), "")))
          [] k = "targetUrl" ->
                Or(Get(p.top, "targetUrl"), Or(Get(p.top, "productUrl"), ""))
          [] k = "rating" -> Or(Get(p.top, "rating"), "")
          [] k = "reviews" -> Or(Get(p.top, "reviews"), "")]

NoRow == [k \in RowKeys |-> ABSENT]

\* normalize_and_extract(prod): the row, or the TypeError of line 121
normalize_and_extract(p) ==
    IF NormalizeRaises(p)
    THEN [raised |-> TRUE, row |-> NoRow]
    ELSE [raised |-> FALSE, row |-> NormalizedRow(p)]

\* line 182: the product-like filter of main
ProductLike(p) ==
    Has(p.top, "brandName") \/ Has(p.top, "productId") \/ Has(p.top, "displayName")

(***************************************************************************)
(* Candidates: at most MaxKeys keys present, top level and currentSku      *)
(* together.  Top-level strings are "A", nested ones "B", so that a value  *)
(* tells the level it came from.                                           *)
(***************************************************************************)
MaxKeys == 3

TopValues ==
    [k \in TopKeys |-> IF k \in BoolKeys THEN {NONE, PyTrue, PyFalse}
                      ELSE {NONE, "", "A"}]
SkuValues ==
    [k \in SkuKeys |-> IF k \in BoolKeys THEN {NONE, PyTrue, PyFalse}
                      ELSE {NONE, "", "B"}]

SmallSubsets(S, n) == {T \in SUBSET S : Cardinality(T) <= n}

\* the dicts over Keys whose present keys are exactly Present
DictsOver(Keys, Present, values) ==
    {[k \in Keys |-> IF k \in Present THEN f[k] ELSE ABSENT] :
        f \in {g \in [Present -> {NONE, "", "A", "B", PyTrue, PyFalse}] :
                  \A k \in Present : g[k] \in values[k]}}

PresentKeys(d) == {k \in DOMAIN d : d[k] # ABSENT}

NumKeys(p) == Cardinality(PresentKeys(p.top)) + Cardinality(PresentKeys(p.sku))

InitNorm ==
    /\ \E T \in SmallSubsets(TopKeys, MaxKeys) :
       \E S \in SmallSubsets(SkuKeys, MaxKeys - Cardinality(T)) :
       \E t \in DictsOver(TopKeys, T, TopValues) :
       \E kind \in {"absent", "null", "dict"} :
       \E s \in DictsOver(SkuKeys, IF kind = "dict" THEN S ELSE {}, SkuValues) :
          prod = [top |-> t, skuKind |-> kind, sku |-> s]
    /\ result = [raised |-> FALSE, row |-> NoRow]
    /\ npc = "call"

\* lines 182-184: a product-like candidate is normalized
Normalize ==
    /\ npc = "call" /\ ProductLike(prod)
    /\ result' = normalize_and_extract(prod)
    /\ npc' = IF result'.raised THEN "raised" ELSE "returned"
    /\ UNCHANGED prod
    /\ UNCHANGED <<scanVars, fileVars, listVars, pageVars>>

\* line 182: any other candidate is passed over
FilterOut ==
    /\ npc = "call" /\ ~ProductLike(prod)
    /\ npc' = "filtered"
    /\ UNCHANGED <<prod, result>>
    /\ UNCHANGED <<scanVars, fileVars, listVars, pageVars>>

NextNorm == Normalize \/ FilterOut


(***************************************************************************)
(* parse_sephora_listing.main                                              *)
(*                                                                         *)
(* A CSV file is [exists, lines]; a line is a function from the columns    *)
(* to strings, the header line maps every column to its own name.  The     *)
(* text of the listing is taken by what the scan returns for it            *)
(* (parsed_objs); the scan itself is SpecScan.                             *)
(***************************************************************************)
MaxObjs == 2
MaxRuns == 2
MaxPageRuns == 3

NoFile == [exists |-> FALSE, lines |-> <<>>]

\* line 193
ListingCols == RowKeys \cup {"localHeroImage"}
ListingHeader == [c \in ListingCols |-> c]

\* a candidate holding the given top-level keys and no currentSku
Candidate(f) ==
    [top |-> [k \in TopKeys |-> IF k \in DOMAIN f THEN f[k] ELSE ABSENT],
     skuKind |-> "absent", sku |-> NoSku]

P_first == Candidate([productId |-> "A", displayName |-> "A", heroImage |-> "/a.jpg"])
P_again == Candidate([productId |-> "A", displayName |-> "B"])
P_name == Candidate([displayName |-> "B", heroImage |-> "/i/"])
P_brand == Candidate([brandName |-> "A"])
P_bare == Candidate([productId |-> "B"])
P_other == Candidate([rating |-> "A"])

ListingCandidates == {P_first, P_again, P_name, P_brand, P_bare, P_other}
Listings == UNION {[1..n -> ListingCandidates] : n \in 0..MaxObjs}

(***************************************************************************)
(* Image URLs and local file names (download_image of both scripts).       *)
(*                                                                         *)
(* The rows hold an image URL as a string; Spell gives its characters, the *)
(* file name is computed on the characters as the code computes it, and    *)
(* Written gives the string of a file name.  The URLs are site-relative    *)
(* and both scripts join them to the site's origin (urljoin).              *)
(***************************************************************************)
ImgUrls == {"/a.jpg", "/d/a.jpg", "/i/"}

Spell(u) ==
    CASE u = "/a.jpg" -> <<"/", "a", ".", "j", "p", "g">>
      [] u = "/d/a.jpg" -> <<"/", "d", "/", "a", ".", "j", "p", "g">>
      [] u = "/i/" -> <<"/", "i", "/">>

Origin == <<"h", "t", "t", "p", "s", ":", "/", "/", "w", "w", "w", ".",
            "s", "e", "p", "h", "o", "r", "a", ".", "c", "o", "m">>

\* urljoin("https://www.sephora.com", u) for a site-relative u
Absolute(u) == Origin \o Spell(u)

Positions(cs, chars) == {k \in DOMAIN cs : cs[k] \in chars}
Least(S) == CHOOSE k \in S : \A m \in S : k <= m
Greatest(S) == CHOOSE k \in S : \A m \in S : k >= m

\* cs up to the first of the given characters
UpTo(cs, chars) ==
    IF Positions(cs, chars) = {} THEN cs
    ELSE SubSeq(cs, 1, Least(Positions(cs, chars)) - 1)

\* os.path.basename: what follows the last "/"
Basename(cs) ==
    IF Positions(cs, {"/"}) = {} THEN cs
    ELSE SubSeq(cs, Greatest(Positions(cs, {"/"})) + 1, Len(cs))

\* urlparse(url).path of scheme://netloc/path;params?query#fragment
UrlPath(cs) ==
    LET colon == Positions(cs, {":"})
        rest == IF colon # {} /\ Len(cs) >= Least(colon) + 2
                   /\ cs[Least(colon) + 1] = "/" /\ cs[Least(colon) + 2] = "/"
                THEN SubSeq(cs, Least(colon) + 3, Len(cs)) ELSE cs
        fromPath == IF rest = cs THEN cs
                    ELSE IF Positions(rest, {"/", "?", "#"}) = {} THEN <<>>
                    ELSE SubSeq(rest, Least(Positions(rest, {"/", "?", "#"})),
                                Len(rest))
        path == UpTo(fromPath, {"?", "#"})
        dir == SubSeq(path, 1, Len(path) - Len(Basename(path)))
    IN dir \o UpTo(Basename(path), {";"})

\* \W of the regular expressions, for the characters the URLs use
NonWord == {"/", ":", ".", "?", "#", ";"}

\* re.sub(r'\W+', '_', url): every run of non-word characters becomes "_"
RECURSIVE SubNonWord(_, _)
SubNonWord(cs, inRun) ==
    IF cs = <<>> THEN <<>>
    ELSE IF Head(cs) \in NonWord
         THEN (IF inRun THEN <<>> ELSE <<"_">>) \o SubNonWord(Tail(cs), TRUE)
         ELSE <<Head(cs)>> \o SubNonWord(Tail(cs), FALSE)

\* line 232 of the page script: [:40]
NameCut == 40
Take(cs, n) == IF Len(cs) <= n THEN cs ELSE SubSeq(cs, 1, n)

\* str(abs(hash(url))): Python salts the hash of a str with a seed drawn
\* when the process starts, so the digits are a function of the URL and of
\* the process.  Two seeds, two values; one URL of the model is hashed.
HashSeeds == {0, 1}
HashDigits(cs, seed) == IF seed = 0 THEN <<"0">> ELSE <<"1">>

\* listing script, line 141
HashName(cs, seed) ==
    <<"i", "m", "g", "_">> \o HashDigits(cs, seed) \o <<".", "j", "p", "g">>

\* listing script, lines 139-141
local_name(cs, seed) ==
    IF Basename(UpTo(cs, {"?"})) = <<>> THEN HashName(cs, seed)
    ELSE Basename(UpTo(cs, {"?"}))

\* page script, lines 229-232
filename(cs) ==
    IF Basename(UrlPath(cs)) = <<>> THEN Take(SubNonWord(cs, FALSE), NameCut)
    ELSE Basename(UrlPath(cs))

\* the string of a file name
Written(cs) ==
    CASE cs = <<"a", ".", "j", "p", "g">> -> "a.jpg"
      [] cs = <<"i", "m", "g", "_", "0", ".", "j", "p", "g">> -> "img_0.jpg"
      [] cs = <<"i", "m", "g", "_", "1", ".", "j", "p", "g">> -> "img_1.jpg"
      [] cs = <<"h", "t", "t", "p", "s", "_", "w", "w", "w", "_", "s", "e",
                "p", "h", "o", "r", "a", "_", "c", "o", "m", "_", "i", "_">>
            -> "https_www_sephora_com_i_"

ImageNames == {"a.jpg", "img_0.jpg", "img_1.jpg", "https_www_sephora_com_i_"}

\* a file of the images directory: is it there, is it whole, whose bytes
NoImage == [state |-> "none", src |-> ""]
NoImages == [f \in ImageNames |-> NoImage]

\* line 147 (241): open(local_path, "wb") creates or empties the file
Opened(dir, name, u) == [dir EXCEPT ![name] = [state |-> "partial", src |-> u]]
\* lines 148-149 (242-244): every chunk was written
Streamed(dir, name) == [dir EXCEPT ![name].state = "complete"]

\* what the runs asked of the network, per kind, since the last time.sleep
NoFetch == [page |-> 0, image |-> 0]

\* line 185
UniqueKey(row) == Or(row["productId"], Or(row["targetUrl"], row["displayName"]))

\* mutant: a key already seen is kept again
KeepsIgnoringSeen(key, seenKeys) == Truthy(key)

\* line 186
Keeps(key, seenKeys) == Truthy(key) /\ key \notin seenKeys

\* the DedupKeys of the data lines of a listing file
DataLines(f) == SelectSeq(f.lines, LAMBDA ln : ln # ListingHeader)
ListingKeys(f) == {UniqueKey(DataLines(f)[k]) : k \in DOMAIN DataLines(f)}

ListingIdle(how) ==
    /\ lpc' = "idle" /\ lexit' = how
    /\ parsed_objs' = <<>> /\ download_images' = FALSE
    /\ obj_idx' = 0 /\ products' = <<>> /\ seen' = {}
    /\ fh' = <<>> /\ pr_idx' = 0 /\ local_img' = ""
    /\ hash_seed' = 0 /\ lsince' = NoFetch

InitListing ==
    /\ images = NoImages
    /\ net_calls = [u \in ImgUrls |-> 0]
    /\ local_names = [u \in ImgUrls |-> {}]
    /\ returned = [u \in ImgUrls |-> {}]
    /\ listing_csv = NoFile
    /\ parsed_objs = <<>> /\ download_images = FALSE
    /\ obj_idx = 0 /\ products = <<>> /\ seen = {}
    /\ fh = <<>> /\ pr_idx = 0 /\ local_img = ""
    /\ lpc = "idle" /\ lexit = "none" /\ lruns = 0
    /\ keys_at_start = {}
    /\ hash_seed = 0 /\ lsince = NoFetch

\* lines 155-179: the arguments, the text of the listing, its scan.
\* With neither --input-file nor --url the run ends at line 166; a failed
\* fetch raises out of load_html_from_url (line 47) and ends the run.
\* The process has its hash seed from its start.
ListingStart ==
    /\ lpc = "idle" /\ lruns < MaxRuns
    /\ lruns' = lruns + 1
    /\ keys_at_start' = ListingKeys(listing_csv)
    /\ \E source \in {"none", "file", "url"}, fetched \in BOOLEAN,
          flag \in BOOLEAN, found \in Listings, seed \in HashSeeds :
          IF source = "none" THEN ListingIdle("usage")
          ELSE IF source = "url" /\ ~fetched THEN ListingIdle("crashed")
          ELSE /\ parsed_objs' = found /\ download_images' = flag
               /\ obj_idx' = 0 /\ products' = <<>> /\ seen' = {}
               /\ lpc' = "dedup" /\ lexit' = "none"
               /\ hash_seed' = IF flag THEN seed ELSE 0
               /\ lsince' = [page |-> IF source = "url" THEN 1 ELSE 0,
                             image |-> 0]
               /\ UNCHANGED <<fh, pr_idx, local_img>>
    /\ UNCHANGED <<images, listing_csv, net_calls, local_names, returned>>
    /\ UNCHANGED <<scanVars, normVars, pageVars, page_csv>>

\* lines 180-188: one iteration of the dedup loop.  The TypeError of
\* normalize_and_extract is caught nowhere and ends the run.
ListingDedup ==
    /\ lpc = "dedup" /\ obj_idx < Len(parsed_objs)
    /\ LET obj == parsed_objs[obj_idx + 1]
           r == normalize_and_extract(obj)
           unique_key == UniqueKey(r.row)
       IN IF ProductLike(obj) /\ r.raised
          THEN ListingIdle("crashed")
          ELSE /\ obj_idx' = obj_idx + 1
               /\ IF ProductLike(obj) /\ Keeps(unique_key, seen)
                  THEN /\ seen' = seen \cup {unique_key}
                       /\ products' = Append(products, r.row)
                  ELSE UNCHANGED <<seen, products>>
               /\ UNCHANGED <<parsed_objs, download_images, fh, pr_idx,
                              local_img, lpc, lexit, hash_seed, lsince>>
    /\ UNCHANGED <<lruns, keys_at_start, images, listing_csv>>
    /\ UNCHANGED <<net_calls, local_names, returned>>
    /\ UNCHANGED <<scanVars, normVars, pageVars, page_csv>>

\* lines 194-196: open(args.out, "w") creates or empties the file; the
\* header goes to the file object's buffer
ListingOpen ==
    /\ lpc = "dedup" /\ obj_idx = Len(parsed_objs)
    /\ listing_csv' = [exists |-> TRUE, lines |-> <<>>]
    /\ fh' = <<ListingHeader>>
    /\ pr_idx' = 0 /\ local_img' = ""
    /\ lpc' = IF products = <<>> THEN "close" ELSE "image"
    /\ UNCHANGED <<parsed_objs, download_images, obj_idx, products, seen,
                   lexit, lruns, keys_at_start, hash_seed, lsince, images>>
    /\ UNCHANGED <<net_calls, local_names, returned>>
    /\ UNCHANGED <<scanVars, normVars, pageVars, page_csv>>

\* lines 198-206 and 134-146: local_img of products[pr_idx], up to the
\* moment download_image has opened the local file.  No time.sleep follows
\* a download anywhere in the loop.
ListingImage ==
    /\ lpc = "image"
    /\ LET img_url == products[pr_idx + 1]["heroImage"]
           name == Written(local_name(Absolute(img_url), hash_seed))
       IN IF ~(download_images /\ Truthy(img_url))
          THEN /\ local_img' = "" /\ lpc' = "row"
               /\ UNCHANGED <<images, net_calls, local_names, returned, lsince>>
          ELSE /\ local_names' = [local_names EXCEPT ![img_url] = @ \cup {name}]
               /\ IF images[name].state # "none"
                  THEN \* line 143: the file is there
                       /\ local_img' = name /\ lpc' = "row"
                       /\ returned' = [returned EXCEPT ![img_url] = @ \cup {name}]
                       /\ UNCHANGED <<images, net_calls, lsince>>
                  ELSE \* line 145: the request
                       /\ net_calls' = [net_calls EXCEPT ![img_url] = @ + 1]
                       /\ lsince' = [lsince EXCEPT !.image = @ + 1]
                       /\ UNCHANGED returned
                       /\ \E answered \in BOOLEAN :
                             IF answered
                             THEN \* line 147: the local file is opened
                                  /\ images' = Opened(images, name, img_url)
                                  /\ lpc' = "stream" /\ UNCHANGED local_img
                             ELSE \* lines 145-146 raise, lines 151-153
                                  /\ local_img' = "" /\ lpc' = "row"
                                  /\ UNCHANGED images
    /\ UNCHANGED <<parsed_objs, download_images, obj_idx, products, seen,
                   fh, pr_idx, lexit, lruns, keys_at_start, hash_seed,
                   listing_csv>>
    /\ UNCHANGED <<scanVars, normVars, pageVars, page_csv>>

\* lines 147-153: the chunks are written, or the stream fails on the way
\* and the file stays as far as it was written
ListingStream ==
    /\ lpc = "stream"
    /\ LET img_url == products[pr_idx + 1]["heroImage"]
           name == Written(local_name(Absolute(img_url), hash_seed))
       IN \E streamed \in BOOLEAN :
             IF streamed
             THEN /\ images' = Streamed(images, name)
                  /\ local_img' = name
                  /\ returned' = [returned EXCEPT ![img_url] = @ \cup {name}]
             ELSE /\ local_img' = "" /\ UNCHANGED <<images, returned>>
    /\ lpc' = "row"
    /\ UNCHANGED <<parsed_objs, download_images, obj_idx, products, seen,
                   fh, pr_idx, lexit, lruns, keys_at_start, hash_seed, lsince,
                   listing_csv>>
    /\ UNCHANGED <<net_calls, local_names>>
    /\ UNCHANGED <<scanVars, normVars, pageVars, page_csv>>

\* lines 207-209: the row goes to the file object's buffer
ListingRow ==
    /\ lpc = "row"
    /\ LET pr == products[pr_idx + 1]
           outrow == [c \in ListingCols |->
                        IF c = "localHeroImage" THEN local_img ELSE pr[c]]
       IN fh' = Append(fh, outrow)
    /\ pr_idx' = pr_idx + 1
    /\ local_img' = ""
    /\ lpc' = IF pr_idx + 1 = Len(products) THEN "close" ELSE "image"
    /\ UNCHANGED <<parsed_objs, download_images, obj_idx, products, seen,
                   lexit, lruns, keys_at_start, hash_seed, lsince, images,
                   listing_csv>>
    /\ UNCHANGED <<net_calls, local_names, returned>>
    /\ UNCHANGED <<scanVars, normVars, pageVars, page_csv>>

\* the file object writes its buffer out when it is full, which for rows
\* of any length may be after any row (whole lines are written here)
ListingFlush ==
    /\ lpc \in {"image", "stream", "row"} /\ fh # <<>>
    /\ listing_csv' = [listing_csv EXCEPT !.lines = @ \o fh]
    /\ fh' = <<>>
    /\ UNCHANGED <<parsed_objs, download_images, obj_idx, products, seen,
                   pr_idx, local_img, lpc, lexit, lruns, keys_at_start,
                   hash_seed, lsince, images>>
    /\ UNCHANGED <<net_calls, local_names, returned>>
    /\ UNCHANGED <<scanVars, normVars, pageVars, page_csv>>

\* line 209-213: the with block ends, the buffer is written, the run ends
ListingClose ==
    /\ lpc = "close"
    /\ listing_csv' = [listing_csv EXCEPT !.lines = @ \o fh]
    /\ ListingIdle("ok")
    /\ UNCHANGED <<lruns, keys_at_start, images>>
    /\ UNCHANGED <<net_calls, local_names, returned>>
    /\ UNCHANGED <<scanVars, normVars, pageVars, page_csv>>

\* the process is killed: what the file object had not written is lost
ListingKill ==
    /\ lpc # "idle"
    /\ ListingIdle("killed")
    /\ UNCHANGED <<lruns, keys_at_start, images, listing_csv>>
    /\ UNCHANGED <<net_calls, local_names, returned>>
    /\ UNCHANGED <<scanVars, normVars, pageVars, page_csv>>

NextListing ==
    \/ ListingStart \/ ListingDedup \/ ListingOpen \/ ListingImage
    \/ ListingStream \/ ListingRow \/ ListingFlush \/ ListingClose
    \/ ListingKill

(***************************************************************************)
(* sephora_perfume_scraper.main                                            *)
(***************************************************************************)
\* lines 289-291
PageCols == {"product_page_url", "product_name", "price", "star_rating",
             "review_count", "image_urls", "downloaded_images"}
PageHeader == [c \in PageCols |-> c]

\* the product pages of the listing; lines 96-103 leave no link twice
Urls == {"u1", "u2"}
LinkLists ==
    {l \in UNION {[1..n -> Urls] : n \in 0..Cardinality(Urls)} :
        \A a, b \in DOMAIN l : a # b => l[a] # l[b]}

\* lines 116-225: what a page of each kind yields.  A full page names the
\* product, its price and one image (the two products show different
\* images); a minimal page, one under 2000 characters, names the product and
\* shows an image; no page, or an empty one, yields nothing.
NoParse == [product_name |-> NONE, price |-> NONE, image_urls |-> <<>>]
parse_product_page(kind, base_url) ==
    IF kind = "full"
    THEN [product_name |-> "N", price |-> "$1",
          image_urls |-> <<IF base_url = "u1" THEN "/a.jpg" ELSE "/d/a.jpg">>]
    ELSE IF kind = "minimal"
    THEN [product_name |-> "N", price |-> NONE, image_urls |-> <<"/i/">>]
    ELSE NoParse

\* lines 250-257: the keys of the file's rows.  csv.DictReader takes the
\* first line for the column names; when that line is a data row, line 256
\* finds no column "product_page_url" in the rows after it and raises.
load_existing_csv(f) ==
    IF ~f.exists \/ Len(f.lines) <= 1
    THEN [raised |-> FALSE, keys |-> {}]
    ELSE IF f.lines[1] = PageHeader
    THEN [raised |-> FALSE,
          keys |-> {f.lines[k]["product_page_url"] : k \in 2..Len(f.lines)}]
    ELSE [raised |-> TRUE, keys |-> {}]

\* mutant: a short page is used as it is
NeedsBrowserIgnoresLength(kind) == kind \in {"None", ""}

\* line 300: the page of requests is not used as it is
NeedsBrowser(kind) == kind \in {"None", "", "minimal"}

PageIdle(how) ==
    /\ ppc' = "idle" /\ pexit' = how
    /\ product_links' = <<>> /\ existing' = {} /\ link_idx' = 0
    /\ page_html' = "None" /\ parsed' = NoParse
    /\ downloaded' = <<>> /\ img_idx' = 0 /\ write_header' = FALSE
    /\ psince' = NoFetch

InitPage ==
    /\ page_csv = NoFile
    /\ product_links = <<>> /\ existing = {} /\ link_idx = 0
    /\ page_html = "None" /\ parsed = NoParse
    /\ downloaded = <<>> /\ img_idx = 0 /\ write_header = FALSE
    /\ ppc = "idle" /\ pexit = "none" /\ pruns = 0
    /\ psince = NoFetch

\* lines 277-291: the browser loads the listing (an exception of
\* driver.get is caught nowhere), time.sleep(2), the links are taken, the
\* file is read
PageStart ==
    /\ ppc = "idle" /\ pruns < MaxPageRuns
    /\ pruns' = pruns + 1
    /\ \E loaded \in BOOLEAN, links \in LinkLists :
          LET old == load_existing_csv(page_csv) IN
          IF ~loaded \/ old.raised THEN PageIdle("crashed")
          ELSE /\ product_links' = links /\ existing' = old.keys
               /\ link_idx' = 0 /\ ppc' = "next" /\ pexit' = "none"
               /\ psince' = NoFetch
               /\ UNCHANGED <<page_html, parsed, downloaded, img_idx,
                              write_header>>
    /\ UNCHANGED fileVars
    /\ UNCHANGED <<scanVars, normVars, listVars>>

\* lines 293-300: the next link; one the file holds is skipped, any other
\* is fetched with requests (safe_get gives None when the request fails or
\* the status is no success)
PageNext ==
    /\ ppc = "next" /\ link_idx < Len(product_links)
    /\ IF product_links[link_idx + 1] \in existing
       THEN /\ link_idx' = link_idx + 1
            /\ UNCHANGED <<page_html, ppc, psince>>
       ELSE \E got \in {"None", "", "minimal", "full"} :
               /\ page_html' = got
               /\ ppc' = IF NeedsBrowser(got) THEN "fallback" ELSE "parse"
               /\ psince' = [psince EXCEPT !.page = @ + 1]
               /\ UNCHANGED link_idx
    /\ UNCHANGED <<product_links, existing, parsed, downloaded, img_idx,
                   write_header, pexit, pruns>>
    /\ UNCHANGED fileVars
    /\ UNCHANGED <<scanVars, normVars, listVars>>

\* lines 301-308: the browser fetches the page, right after the request of
\* line 298, and renders it, or fails: html = html or ""
PageFallback ==
    /\ ppc = "fallback"
    /\ \E rendered \in BOOLEAN :
          page_html' = IF rendered THEN "full"
                       ELSE IF page_html = "None" THEN "" ELSE page_html
    /\ psince' = [psince EXCEPT !.page = @ + 1]
    /\ ppc' = "parse"
    /\ UNCHANGED <<product_links, existing, link_idx, parsed, downloaded,
                   img_idx, write_header, pexit, pruns>>
    /\ UNCHANGED fileVars
    /\ UNCHANGED <<scanVars, normVars, listVars>>

\* lines 310-313
PageParse ==
    /\ ppc = "parse"
    /\ parsed' = parse_product_page(page_html, product_links[link_idx + 1])
    /\ downloaded' = <<>> /\ img_idx' = 0
    /\ ppc' = IF parsed'.image_urls = <<>> THEN "save" ELSE "image"
    /\ UNCHANGED <<product_links, existing, link_idx, page_html,
                   write_header, pexit, pruns, psince>>
    /\ UNCHANGED fileVars
    /\ UNCHANGED <<scanVars, normVars, listVars>>

\* after an image: the next one, or the row
AfterImage == IF img_idx + 1 = Len(parsed.image_urls) THEN "save" ELSE "image"

\* lines 313-319 and 227-241: one image, up to the moment download_image
\* has opened the local file; when download_image returns without having
\* opened it, time.sleep(0.2) follows
PageImage ==
    /\ ppc = "image"
    /\ LET img_url == parsed.image_urls[img_idx + 1]
           name == Written(filename(Absolute(img_url)))
       IN /\ local_names' = [local_names EXCEPT ![img_url] = @ \cup {name}]
          /\ IF images[name].state # "none"
             THEN \* line 234: the file is there
                  /\ downloaded' = Append(downloaded, name)
                  /\ returned' = [returned EXCEPT ![img_url] = @ \cup {name}]
                  /\ img_idx' = img_idx + 1 /\ ppc' = AfterImage
                  /\ psince' = NoFetch
                  /\ UNCHANGED <<images, net_calls>>
             ELSE \* line 239: the request
                  /\ net_calls' = [net_calls EXCEPT ![img_url] = @ + 1]
                  /\ UNCHANGED returned
                  /\ \E answered \in BOOLEAN :
                        IF answered
                        THEN \* line 241: the local file is opened
                             /\ images' = Opened(images, name, img_url)
                             /\ ppc' = "stream"
                             /\ psince' = [psince EXCEPT !.image = @ + 1]
                             /\ UNCHANGED <<downloaded, img_idx>>
                        ELSE \* lines 239-240 raise, lines 246-248, 319
                             /\ img_idx' = img_idx + 1 /\ ppc' = AfterImage
                             /\ psince' = NoFetch
                             /\ UNCHANGED <<downloaded, images>>
    /\ UNCHANGED <<product_links, existing, link_idx, page_html, parsed,
                   write_header, pexit, pruns>>
    /\ UNCHANGED <<listing_csv, page_csv>>
    /\ UNCHANGED <<scanVars, normVars, listVars>>

\* lines 241-248, 317-319: the chunks are written, or the stream fails and
\* the file stays as far as it was written; time.sleep(0.2)
PageStream ==
    /\ ppc = "stream"
    /\ LET img_url == parsed.image_urls[img_idx + 1]
           name == Written(filename(Absolute(img_url)))
       IN \E streamed \in BOOLEAN :
             IF streamed
             THEN /\ images' = Streamed(images, name)
                  /\ downloaded' = Append(downloaded, name)
                  /\ returned' = [returned EXCEPT ![img_url] = @ \cup {name}]
             ELSE UNCHANGED <<images, downloaded, returned>>
    /\ img_idx' = img_idx + 1 /\ ppc' = AfterImage
    /\ psince' = NoFetch
    /\ UNCHANGED <<product_links, existing, link_idx, page_html, parsed,
                   write_header, pexit, pruns>>
    /\ UNCHANGED <<listing_csv, page_csv, net_calls, local_names>>
    /\ UNCHANGED <<scanVars, normVars, listVars>>

\* " | ".join of at most one string
Joined(l) == IF l = <<>> THEN "" ELSE l[1]

\* lines 321-329
PageRow ==
    [c \in PageCols |->
        CASE c = "product_page_url" -> product_links[link_idx + 1]
          [] c = "product_name" -> Or(parsed.product_name, "")
          [] c = "price" -> Or(parsed.price, "")
          [] c = "image_urls" -> Joined(parsed.image_urls)
          [] c = "downloaded_images" -> Joined(downloaded)
          [] OTHER -> ""]

\* lines 260-262: save_row looks for the file, then open(csv_path, "a")
\* creates it when it is not there
PageSaveOpen ==
    /\ ppc = "save"
    /\ write_header' = ~page_csv.exists
    /\ page_csv' = [page_csv EXCEPT !.exists = TRUE]
    /\ ppc' = "write"
    /\ UNCHANGED <<product_links, existing, link_idx, page_html, parsed,
                   downloaded, img_idx, pexit, pruns, psince>>
    /\ UNCHANGED <<images, listing_csv, net_calls, local_names, returned>>
    /\ UNCHANGED <<scanVars, normVars, listVars>>

\* lines 263-266, 332: the header if write_header, the row; the with block
\* ends and they reach the file together; time.sleep(DELAY_BETWEEN_PAGES)
PageSaveWrite ==
    /\ ppc = "write"
    /\ page_csv' = [page_csv EXCEPT !.lines =
                      @ \o (IF write_header THEN <<PageHeader>> ELSE <<>>)
                        \o <<PageRow>>]
    /\ link_idx' = link_idx + 1
    /\ ppc' = "next"
    /\ page_html' = "None" /\ parsed' = NoParse
    /\ downloaded' = <<>> /\ img_idx' = 0 /\ write_header' = FALSE
    /\ psince' = NoFetch
    /\ UNCHANGED <<product_links, existing, pexit, pruns>>
    /\ UNCHANGED <<images, listing_csv, net_calls, local_names, returned>>
    /\ UNCHANGED <<scanVars, normVars, listVars>>

\* lines 293, 334-335: no link is left
PageDone ==
    /\ ppc = "next" /\ link_idx = Len(product_links)
    /\ PageIdle("ok")
    /\ UNCHANGED pruns
    /\ UNCHANGED fileVars
    /\ UNCHANGED <<scanVars, normVars, listVars>>

\* the process is killed
PageKill ==
    /\ ppc # "idle"
    /\ PageIdle("killed")
    /\ UNCHANGED pruns
    /\ UNCHANGED fileVars
    /\ UNCHANGED <<scanVars, normVars, listVars>>

NextPage ==
    \/ PageStart \/ PageNext \/ PageFallback \/ PageParse \/ PageImage
    \/ PageStream \/ PageSaveOpen \/ PageSaveWrite \/ PageDone \/ PageKill

(***************************************************************************)
(* Specifications                                                          *)
(***************************************************************************)
IdleScan ==
    /\ segs = <<>> /\ html = <<>> /\ i = 0 /\ j = 0 /\ start = 0
    /\ depth = 0 /\ in_str = FALSE /\ esc = FALSE
    /\ objs = <<>> /\ spans = <<>> /\ scans = <<>> /\ spc = "idle"

IdleNorm ==
    /\ prod = [top |-> [k \in TopKeys |-> ABSENT], skuKind |-> "absent",
               sku |-> NoSku]
    /\ result = [raised |-> FALSE, row |-> NoRow]
    /\ npc = "idle"

ScanInit == InitScan /\ IdleNorm /\ InitListing /\ InitPage
SpecScan == ScanInit /\ [][NextScan]_vars

\* the loops of find_json_objects_in_html run on without waiting for anything
SpecScanFair == ScanInit /\ [][NextScan]_vars /\ WF_vars(NextScan)

NormInit == InitNorm /\ IdleScan /\ InitListing /\ InitPage
SpecNorm == NormInit /\ [][NextNorm]_vars

ListingInit == InitListing /\ InitPage /\ IdleScan /\ IdleNorm
SpecListing == ListingInit /\ [][NextListing]_vars

PageInit == InitPage /\ InitListing /\ IdleScan /\ IdleNorm
SpecPage == PageInit /\ [][NextPage]_vars

(***************************************************************************)
(* Claims about find_json_objects_in_html (SpecScan)                       *)
(***************************************************************************)
Range(f) == {f[k] : k \in DOMAIN f}

ObjectSegs(ss) == SelectSeq(ss, LAMBDA f : f \in FlatObjects)

\* the dicts of the object fragments, in document order
ExpectedObjs(ss) ==
    [k \in 1..Len(ObjectSegs(ss)) |-> JsonLoads(ObjectSegs(ss)[k]).val]

\* every junk fragment stands alone between objects or the text's ends
JunkInterspersed(ss) ==
    /\ Range(ss) \subseteq FlatObjects \cup Junk
    /\ \A k \in 1..(Len(ss) - 1) : ~(ss[k] \in Junk /\ ss[k + 1] \in Junk)

HasNoOpenBrace(f) == \A k \in DOMAIN f : f[k] # LB

\* C4 as stated: for a text of N well-formed, non-nested JSON objects
\* interspersed with arbitrary non-JSON text, the scan returns exactly the
\* N parsed dicts, in document order.
C4_AnyJunk ==
    (spc = "done" /\ JunkInterspersed(segs)) => objs = ExpectedObjs(segs)

\* C4 amended: for a text of N well-formed, non-nested JSON objects
\* interspersed with non-JSON text that holds no "{" character, the scan
\* returns exactly the N parsed dicts, in document order.
C4_JunkWithoutOpenBrace ==
    (/\ spc = "done"
     /\ Range(segs) \subseteq FlatObjects \cup Junk
     /\ \A k \in DOMAIN segs : segs[k] \in Junk => HasNoOpenBrace(segs[k]))
    => objs = ExpectedObjs(segs)

\* two objects with brace-free junk between them have been returned
C4_Witness ==
    /\ spc = "done"
    /\ Len(segs) = 3
    /\ segs[1] \in FlatObjects /\ segs[3] \in FlatObjects
    /\ segs[2] \in Junk /\ HasNoOpenBrace(segs[2])
    /\ Len(objs) = 2

\* Reference reading of a span that starts at lo (0-based positions):
\* a quote is escaped iff an odd run of backslashes stands right before it,
\* a position is inside a string iff an odd number of unescaped quotes
\* precede it, and only braces outside strings count.
RECURSIVE BackslashRun(_, _)
BackslashRun(p, lo) ==
    IF p >= lo /\ html[p + 1] = BS THEN 1 + BackslashRun(p - 1, lo) ELSE 0

IsEscaped(p, lo) == BackslashRun(p - 1, lo) % 2 = 1

StringDelims(lo, hi) ==
    {p \in lo..(hi - 1) : html[p + 1] = QT /\ ~IsEscaped(p, lo)}

InsideString(p, lo) == Cardinality(StringDelims(lo, p)) % 2 = 1

BraceDepth(lo, hi) ==
    Cardinality({p \in lo..(hi - 1) : html[p + 1] = LB /\ ~InsideString(p, lo)})
    - Cardinality({p \in lo..(hi - 1) : html[p + 1] = RB /\ ~InsideString(p, lo)})

\* C5: while a span is scanned, depth counts exactly the braces that lie
\* outside double-quoted strings (a brace inside a string, also after an
\* escaped quote or before a quote that follows an escaped backslash, never
\* changes it), and every yielded span is brace-balanced.
C5_StringsNeverCountAndSpansBalanced ==
    /\ spc = "inner" =>
          /\ depth = BraceDepth(start, j)
          /\ in_str = InsideString(j, start)
    /\ \A k \in DOMAIN spans :
          /\ BraceDepth(spans[k][1], spans[k][2] + 1) = 0
          /\ \A m \in (spans[k][1] + 1)..spans[k][2] :
                BraceDepth(spans[k][1], m) > 0

\* both escape cases have been scanned and yielded
C5_Witness ==
    /\ spc = "done"
    /\ segs = <<O_escq, O_escb>>
    /\ Len(spans) = 2

(***************************************************************************)
(* Claims about normalize_and_extract (SpecNorm)                           *)
(***************************************************************************)
\* the keys normalize_and_extract reads for a string field of the row
TopSources(k) ==
    CASE k = "productId" -> {"productId", "skuId"}
      [] k = "imageAltText" -> {"imageAltText", "altImage"}
      [] k = "heroImage" -> {"heroImage", "image", "mainImage"}
      [] k = "targetUrl" -> {"targetUrl", "productUrl"}
      [] OTHER -> {k}

StringFields == {"productId", "displayName", "brandName", "imageAltText",
                 "listPrice", "heroImage", "targetUrl"}

\* the candidate holds the field under no key at either level
FieldMissing(p, k) ==
    /\ \A t \in TopSources(k) : ~Has(p.top, t)
    /\ k \in SkuKeys => ~Has(Current(p), k)

\* C9: for every product-like candidate the call returns a row (it does not
\* raise because a key is absent) and each missing string field of the row
\* is the empty string.
C9_MissingStringFieldsAreEmpty ==
    /\ npc # "raised"
    /\ npc = "returned" =>
          \A k \in StringFields :
              FieldMissing(prod, k) => result.row[k] = ""

\* a nested value that is a value: not null, not the empty string
NestedValue(p, k) == Has(Current(p), k) /\ Get(Current(p), k) \notin {NONE, ""}

IsPrefix(a, b) == Len(a) <= Len(b) /\ SubSeq(b, 1, Len(a)) = a

PageDataLines == SelectSeq(page_csv.lines, LAMBDA ln : ln # PageHeader)

\* C1: the persisted output is append-only over the runs of either
\* pipeline: the rows a file holds before a step are a prefix of the rows
\* it holds after the step (no row is rewritten, reordered or deleted).
C1_OutputIsAppendOnly ==
    [][/\ IsPrefix(DataLines(listing_csv), DataLines(listing_csv)')
       /\ IsPrefix(PageDataLines, PageDataLines')]_vars

\* C2: after any sequence of complete or interrupted runs, no two rows of
\* the persisted output have the same primary key (DedupKey in the listing
\* file, product_page_url in the page file).
C2_NoTwoRowsShareAKey ==
    /\ \A a, b \in DOMAIN PageDataLines :
          a # b => PageDataLines[a]["product_page_url"]
                   # PageDataLines[b]["product_page_url"]
    /\ \A a, b \in DOMAIN DataLines(listing_csv) :
          a # b => UniqueKey(DataLines(listing_csv)[a])
                   # UniqueKey(DataLines(listing_csv)[b])

\* C3: an input whose primary key the output held when the run started is
\* skipped: it is not normalized, not taken by the dedup loop and not
\* written again (listing pipeline: it never enters products; page
\* pipeline: it is never fetched or saved).
C3_PersistedKeysAreSkipped ==
    /\ \A k \in DOMAIN products : UniqueKey(products[k]) \notin keys_at_start
    /\ ppc \notin {"idle", "next"} =>
          product_links[link_idx + 1] \notin existing

\* the rows the dedup loop has to keep of the first n candidates: the
\* product-like ones with a non-empty key that no earlier one has
RowOf(m) == normalize_and_extract(parsed_objs[m]).row
KeyOf(m) == UniqueKey(RowOf(m))
FirstOfKey(m) ==
    /\ ProductLike(parsed_objs[m])
    /\ KeyOf(m) # ""
    /\ \A e \in 1..(m - 1) : ProductLike(parsed_objs[e]) => KeyOf(e) # KeyOf(m)
KeptOf(n) == SelectSeq([m \in 1..n |-> m], FirstOfKey)

\* C6: in the dedup loop a normalized record is kept iff its DedupKey is
\* non-empty and no earlier record of the run has it: products holds, in
\* document order, exactly the first record of every non-empty key among
\* the candidates taken so far, and seen holds their keys.
C6_FirstRecordOfEachKeyIsKept ==
    lpc # "idle" =>
        /\ products = [k \in 1..Len(KeptOf(obj_idx)) |-> RowOf(KeptOf(obj_idx)[k])]
        /\ seen = {KeyOf(KeptOf(obj_idx)[k]) : k \in 1..Len(KeptOf(obj_idx))}

\* two candidates with the same productId were taken, the first was kept
C6_Witness ==
    /\ lpc = "dedup" /\ obj_idx = 2
    /\ parsed_objs = <<P_first, P_again>>
    /\ Len(products) = 1 /\ products[1]["displayName"] = "A"

\* C7: every accepted record is written at once, one record per write:
\* whenever the process can be killed, the file on disk holds exactly the
\* rows of the records completed so far (in the listing pipeline, the
\* pr_idx records the write loop has finished), under the header.
C7_FileOnDiskIsCompleteAtEveryStep ==
    /\ lpc \in {"image", "stream", "row", "close"} =>
          Len(DataLines(listing_csv)) = pr_idx
    /\ listing_csv.lines # <<>> => listing_csv.lines[1] = ListingHeader
    /\ page_csv.lines # <<>> => page_csv.lines[1] = PageHeader

\* C8: apart from a missing input selection, no failure ends a run: no run
\* of either pipeline ends by an exception.
C8_NoFailureAbortsARun == lexit # "crashed" /\ pexit # "crashed"

(***************************************************************************)
(* More claims about find_json_objects_in_html (SpecScan, SpecScanFair)    *)
(***************************************************************************)
\* the position where the span opened at lo closes: the first closing brace
\* outside a string that brings the depth back to zero; L - 1, the last
\* position of the text, when there is none
SpanEnd(lo) ==
    LET closing == {p \in lo..(L - 1) :
                      /\ html[p + 1] = RB /\ ~InsideString(p, lo)
                      /\ ~IsEscaped(p, lo)
                      /\ BraceDepth(lo, p + 1) = 0}
    IN IF closing = {} THEN L - 1
       ELSE CHOOSE p \in closing : \A q \in closing : p <= q

BraceFreeJunk(f) == f \in Junk /\ HasNoOpenBrace(f)

\* C15 as stated: a text that starts with the malformed span {"a": {"b": }
\* yields no object for the span, and the text after the span is still
\* scanned for objects: the well-formed objects that follow it are returned.
C15_TextAfterSpanIsScanned ==
    (/\ spc = "done" /\ segs # <<>> /\ segs[1] = M_span
     /\ \A k \in 2..Len(segs) : segs[k] \in FlatObjects)
    => objs = ExpectedObjs(segs)

\* C15 amended: for a text that starts with the malformed span
\* {"a": {"b": } the scan ends without an error and yields no object for the
\* span; the span's depth does not return to zero inside it, so its scan
\* runs on over the text that follows, up to the first closing brace outside
\* a string that balances it or to the end of the text, and no object that
\* opens in that stretch is yielded; the scan resumes after that brace, and
\* the well-formed objects after it are returned.
C15_SpanRunsToBalancingBrace ==
    (spc = "done" /\ segs # <<>> /\ segs[1] = M_span) =>
        /\ scans # <<>>
        /\ scans[1].start = 0 /\ scans[1].end = SpanEnd(0)
        /\ scans[1].outcome \in {"failed", "unterminated"}
        /\ \A k \in DOMAIN spans : spans[k][1] > SpanEnd(0)
        /\ (/\ Len(segs) >= 2 /\ segs[2] = J_close
            /\ \A k \in 3..Len(segs) :
                  segs[k] \in FlatObjects \/ BraceFreeJunk(segs[k]))
           => objs = ExpectedObjs(segs)

\* the malformed span, the brace that balances it, an object: one dict
C15_Witness ==
    /\ spc = "done"
    /\ segs = <<M_span, J_close, O_plain>>
    /\ Len(objs) = 1 /\ scans[1].outcome = "failed"

\* the outer position never moves back, and leaves a closed span for the
\* character after its closing brace
ResumesForward ==
    /\ i' >= i
    /\ (spc = "inner" /\ spc' = "outer" /\ j < L) =>
          (html[j + 1] = RB /\ i' = j + 1)

\* the span scans, the running one included, read disjoint stretches
ScansAreDisjoint ==
    /\ \A k \in DOMAIN scans : scans[k].start <= scans[k].end
    /\ \A k \in 1..(Len(scans) - 1) : scans[k].end < scans[k + 1].start
    /\ (spc = "inner" /\ scans # <<>>) => scans[Len(scans)].end < start
    /\ spc = "inner" => (start <= j /\ i = start)

\* C16: the scan ends on every text; the outer position never moves back;
\* when a span scan ends on a closing brace, parsed or not, the outer scan
\* resumes at the character right after that brace; and no position is read
\* by two span scans: each span scan starts after the end of the one before.
C16_ScanTerminatesAndNeverRescans ==
    /\ <>(spc = "done")
    /\ [][ResumesForward]_vars
    /\ []ScansAreDisjoint

\* a span that failed to parse and one that parsed were both scanned
C16_Witness ==
    /\ spc = "done"
    /\ Len(scans) = 2
    /\ scans[1].outcome = "failed" /\ scans[2].outcome = "dict"
    /\ scans[2].start = scans[1].end + 1

NoOpenBraceIn(lo, hi) == \A p \in lo..hi : html[p + 1] # LB

\* C19: a depth-balanced span that json.loads rejects is dropped: nothing is
\* appended for it, no yielded object opens inside it, and the next span
\* scan starts at the first opening brace after the failed span's closing
\* brace (a brace right after it starts one).
C19_FailedSpanIsDiscardedWhole ==
    /\ Len(objs) = Len(spans)
    /\ Len(spans) = Len(SelectSeq(scans, LAMBDA sc : sc.outcome = "dict"))
    /\ \A s \in DOMAIN scans :
          scans[s].outcome = "failed" =>
             /\ html[scans[s].end + 1] = RB
             /\ BraceDepth(scans[s].start, scans[s].end + 1) = 0
             /\ \A k \in DOMAIN spans :
                   ~(scans[s].start <= spans[k][1] /\ spans[k][1] <= scans[s].end)
             /\ s < Len(scans) =>
                   /\ scans[s + 1].start > scans[s].end
                   /\ NoOpenBraceIn(scans[s].end + 1, scans[s + 1].start - 1)
             /\ (s = Len(scans) /\ spc = "inner") =>
                   /\ start > scans[s].end
                   /\ NoOpenBraceIn(scans[s].end + 1, start - 1)
             /\ (s = Len(scans) /\ spc = "done") =>
                   NoOpenBraceIn(scans[s].end + 1, L - 1)

\* a well-formed object inside a span that failed was never yielded
C19_Witness ==
    /\ spc = "done"
    /\ segs = <<J_open, O_plain, J_close>>
    /\ objs = <<>>
    /\ Len(scans) = 1 /\ scans[1].outcome = "failed"

(***************************************************************************)
(* More claims about normalize_and_extract (SpecNorm)                      *)
(***************************************************************************)
IsBool(v) == v \in {PyTrue, PyFalse}

\* C11: in every row normalize_and_extract returns, isLimitedEdition and
\* isNew are the boolean under currentSku when there is one, else the
\* boolean at top level when there is one, and the empty string, never
\* False, when the key is absent at both levels.
C11_BooleansAreTriState ==
    npc = "returned" =>
        \A k \in BoolKeys :
            LET nested == Get(Current(prod), k)
                top == Get(prod.top, k)
            IN /\ IsBool(nested) => result.row[k] = nested
               /\ (~IsBool(nested) /\ IsBool(top)) => result.row[k] = top
               /\ (~Has(Current(prod), k) /\ ~Has(prod.top, k)) =>
                     result.row[k] = ""

\* isNew False under currentSku and True at top level, isLimitedEdition at
\* neither level: the row has False and the empty string
C11_Witness ==
    /\ npc = "returned"
    /\ prod.skuKind = "dict"
    /\ prod.sku["isNew"] = PyFalse /\ prod.top["isNew"] = PyTrue
    /\ ~Has(prod.sku, "isLimitedEdition") /\ ~Has(prod.top, "isLimitedEdition")
    /\ result.row["isNew"] = PyFalse
    /\ result.row["isLimitedEdition"] = ""

(***************************************************************************)
(* Claims about the image cache (SpecListing, SpecPage)                    *)
(***************************************************************************)
\* C12: once download_image has returned a path for a URL, a later request
\* for that URL, in the same run or in a later one, makes no network call
\* and returns that same path: there is one download per URL.
C12_SecondRequestIsServedFromCache ==
    /\ [](\A u \in ImgUrls : Cardinality(returned[u]) <= 1)
    /\ [][\A u \in ImgUrls :
             net_calls'[u] > net_calls[u] => returned[u] = {}]_vars

\* C17: the local name download_image derives is a function of the URL
\* alone: all calls, of all runs, derive the same name for the same URL.
C17_LocalNameIsAFunctionOfTheUrl ==
    \A u \in ImgUrls : Cardinality(local_names[u]) <= 1

\* the image URL the loop of each script is at
ListingImgUrl == products[pr_idx + 1]["heroImage"]
PageImgUrl(k) == parsed.image_urls[k]

\* C20: a path download_image returns for a URL names a file that holds the
\* whole of what was downloaded from that URL (never a file a failed or
\* interrupted download left, never the file of another URL), and no two
\* URLs are served from one local file.
C20_ReturnedFileIsCompleteAndOwn ==
    /\ (lpc = "row" /\ local_img # "") =>
          images[local_img] = [state |-> "complete", src |-> ListingImgUrl]
    /\ \A k \in DOMAIN downloaded :
          images[downloaded[k]] = [state |-> "complete", src |-> PageImgUrl(k)]
    /\ \A u, v \in ImgUrls : u # v => returned[u] \cap returned[v] = {}

\* C13: in every run of either script, no two page fetches and no two image
\* fetches happen without a time.sleep between them.
C13_DelayBetweenFetches ==
    /\ lsince.page <= 1 /\ lsince.image <= 1
    /\ psince.page <= 1 /\ psince.image <= 1

(***************************************************************************)
(* Claims about the output files (SpecListing, SpecPage)                   *)
(***************************************************************************)
HeaderOnce(lines, header) ==
    lines # <<>> =>
        /\ lines[1] = header
        /\ \A k \in 2..Len(lines) : lines[k] # header

\* C14: over any sequence of runs a file that holds lines holds the header
\* once, as its first line, and a script writes the header only when it
\* found no output file.
C14_HeaderWrittenOnceByCreatingWrite ==
    /\ [](/\ HeaderOnce(listing_csv.lines, ListingHeader)
          /\ HeaderOnce(page_csv.lines, PageHeader))
    /\ [][/\ (fh = <<>> /\ fh' # <<>> /\ Head(fh') = ListingHeader) =>
                ~listing_csv.exists
          /\ (ppc = "save" /\ write_header') => ~page_csv.exists]_vars

(***************************************************************************)
(* Claims about the fallback of the page script (SpecPage)                 *)
(***************************************************************************)
\* the row of a link in the file, the last one written
LastLine == page_csv.lines[Len(page_csv.lines)]

\* C18: when the request of a product page fails or gives a page under 2000
\* characters the browser is tried, and when the browser fails too the link
\* still gets its row: a loop iteration that does not skip the link ends by
\* writing a row with the link and the fields parsed from what was fetched,
\* empty where there are none.
C18_FallbackThenRowAnyway ==
    [][/\ (ppc = "next" /\ ppc' \in {"fallback", "parse"}) =>
            (page_html' \in {"None", "", "minimal"} => ppc' = "fallback")
       /\ (ppc # "idle" /\ ppc' # "idle" /\ link_idx' = link_idx + 1
           /\ product_links[link_idx + 1] \notin existing) =>
            /\ page_csv'.lines # <<>>
            /\ LastLine'["product_page_url"] = product_links[link_idx + 1]
            /\ LastLine'["product_name"] =
                  IF page_html \in {"minimal", "full"} THEN "N" ELSE ""
            /\ LastLine'["price"] = IF page_html = "full" THEN "$1" ELSE ""
            /\ Len(page_csv'.lines) > Len(page_csv.lines)]_vars

\* both pages of a listing were recorded after the browser had failed: one
\* with nothing fetched, one with the short page of the request
C18_Witness ==
    /\ Len(PageDataLines) = 2
    /\ PageDataLines[1]["product_name"] = ""
    /\ PageDataLines[2]["product_name"] = "N"
    /\ PageDataLines[2]["price"] = ""
    /\ PageDataLines[1]["product_page_url"] # PageDataLines[2]["product_page_url"]

(***************************************************************************)
(* Claims about the key of a kept record (SpecListing)                     *)
(***************************************************************************)
\* the keys of a candidate line 185 can take the DedupKey from
IdentifierKeys == {"productId", "skuId", "targetUrl", "productUrl", "displayName"}

\* the values the candidate carries under them
Identifiers(obj) ==
    {Get(obj.top, k) : k \in IdentifierKeys} \ {NONE, ""}

\* the candidate the dedup loop is at
DedupObj == parsed_objs[obj_idx + 1]

\* C21: the DedupKey of a record the dedup loop keeps is a value its own
\* candidate carried as productId/skuId, targetUrl/productUrl or
\* displayName; a candidate that carries none of them is not kept, so no
\* record is kept under a key built from brandName.
C21_KeptKeyIsAnIdentifierOfItsCandidate ==
    [][(lpc = "dedup" /\ products' # products /\ products' # <<>>) =>
          UniqueKey(products'[Len(products')]) \in Identifiers(DedupObj)]_vars

=============================================================================
